---- MODULE Spec2Model ----
(***************************************************************************)
(* Model of the text cache worker of text.pollinations.ai                  *)
(* (cloudflare-cache/src/index.js and vector-utils.js): a Cloudflare       *)
(* Worker in front of the text origin with an exact-match store            *)
(* (TEXT_BUCKET, R2) and a vector index (VECTORIZE_CACHE).                 *)
(*                                                                         *)
(* One execution context per inbound request.  A step of the model is the  *)
(* code between two awaits that touch the stores or the origin; awaits on  *)
(* request-local values (reading the request body, reading the first chunk *)
(* of a cached body) are folded into the step that follows them.           *)
(***************************************************************************)
EXTENDS Integers, Sequences, FiniteSets, TLC

(***************************************************************************)
(* Bounds                                                                  *)
(***************************************************************************)
\* total number of requests received in one behaviour
MaxRequests == 3

\* the concurrent execution contexts
Contexts == {"c1", "c2"}

(***************************************************************************)
(* Values                                                                  *)
(***************************************************************************)
Null == [null |-> TRUE]

\* request bodies: BadBody stands for bytes that are not JSON, NoBody for a
\* request without a body, the others for parsed JSON objects
BadBody == "not-json"
NoBody == "no-body"
JsonBodies == {"json-1"}

Methods == {"GET", "POST", "OPTIONS"}

\* pathnames as sequences of segments: <<"vectorcache", "completion">> is
\* /vectorcache/completion
Paths ==
    { <<"completion">>, <<"models">>, <<"v1", "chat", "completions">>,
      <<"vectorcache">>, <<"vectorcache", "completion">>,
      <<"vectorcache", "models">>,
      <<"vectorcache", "v1", "chat", "completions">> }

CompletionPaths == { <<"completion">>, <<"vectorcache", "completion">> }

\* the requests the clients send: every route of the handler, the query
\* flags and both kinds of body are represented
Requests ==
    LET chat == <<"vectorcache", "v1", "chat", "completions">> IN
    { q \in [method : Methods, pathname : Paths, nocache : BOOLEAN,
             stream : BOOLEAN, body : JsonBodies \cup {BadBody, NoBody}] :
        /\ (q.method = "POST") <=> (q.body # NoBody)
        /\ q.method = "OPTIONS" => q.pathname \in {chat, <<"completion">>}
        /\ q.method = "POST" =>
              \/ q.pathname \in CompletionPaths \cup {chat}
              \/ q.pathname = <<"v1", "chat", "completions">> /\ q.body # BadBody
        /\ q.method = "GET" => q.pathname \notin {chat, <<"v1", "chat", "completions">>}
        /\ q.stream => (q.method = "GET" /\ ~q.nocache /\ q.pathname = <<"completion">>)
        /\ q.nocache =>
              \/ q.method = "GET" /\ q.pathname \in {<<"completion">>, <<"vectorcache">>}
              \/ q.pathname = chat }

\* response bodies as sequences of characters
Body1 == <<"{", "1">>
Body2 == <<"t", "2">>

\* content types as sequences of tokens; <<>> is a missing header
CtJson == <<"application/", "json">>
CtJsonUtf8 == <<"application/", "json", "; charset=utf-8">>
CtPlainUtf8 == <<"text/", "plain", "; charset=utf-8">>
CtEventStream == <<"text/", "event-stream">>
CtEventStreamUtf8 == <<"text/", "event-stream", "; charset=utf-8">>
CtPng == <<"image/", "png">>
StatusText(status) ==
    CASE status = 200 -> "OK"
      [] status = 204 -> "No Content"
      [] status = 500 -> "Internal Server Error"
      [] OTHER -> ""

\* what the origin may answer to one forwarded request
OriginAnswers ==
    { <<200, CtJson, Body1>>, <<200, CtEventStream, Body2>>,
      <<200, CtPng, Body1>>, <<500, CtJson, Body1>> }

OriginResponses ==
    { [status |-> a[1], statusText |-> StatusText(a[1]), body |-> a[3],
       contentType |-> a[2], xcache |-> "none", similarity |-> -1,
       originalKey |-> Null] : a \in OriginAnswers }

\* scores a vector query may report, in hundredths
Scores == {5, 10, 50}

\* similarityThreshold passed by the router to querySimilarVectors, and the
\* topK it asks for
SimilarityThreshold == 80
TopK == 5

(***************************************************************************)
(* Pure helpers of the router                                              *)
(***************************************************************************)
\* needle occurs in hay as a contiguous run of tokens (String.includes)
Includes(hay, needle) ==
    \E i \in 0..(Len(hay) - Len(needle)) :
        \A j \in 1..Len(needle) : hay[i + j] = needle[j]

\* url.pathname.startsWith('/vectorcache')
IsVectorCacheRequest(pathname) ==
    Len(pathname) >= 1 /\ pathname[1] = "vectorcache"

\* url.pathname after the /vectorcache prefix is removed; '' becomes '/'
ModifiedPathname(pathname) ==
    IF IsVectorCacheRequest(pathname) THEN Tail(pathname) ELSE pathname

nonCacheablePaths == { <<"models">>, <<"feed">> }

ChatCompletionsPath == <<"vectorcache", "v1", "chat", "completions">>

\* requestBody of the router: the parsed body of a POST, null otherwise
RequestBody(q) == IF q.method = "POST" THEN q.body ELSE NoBody

\* generateCacheKey(url, requestBody): a deterministic key of the modified
\* path, the query and the body
generateCacheKey(pathname, stream, requestBody) ==
    [pathname |-> pathname, stream |-> stream, body |-> requestBody]

CacheKeyOf(q) ==
    generateCacheKey(ModifiedPathname(q.pathname), q.stream, RequestBody(q))

\* Route without the no-cache test of the bypass rule
RouteIgnoringNoCache(q) ==
    IF IsVectorCacheRequest(q.pathname) /\ q.pathname = <<"vectorcache">>
    THEN "root"
    ELSE IF IsVectorCacheRequest(q.pathname)
            /\ q.pathname = ChatCompletionsPath /\ q.method = "POST"
    THEN IF q.body = BadBody THEN "chatError" ELSE "chatFetch"
    ELSE IF IsVectorCacheRequest(q.pathname)
            /\ q.pathname = ChatCompletionsPath /\ q.method = "OPTIONS"
    THEN "chatOptions"
    ELSE IF ModifiedPathname(q.pathname) \in nonCacheablePaths
    THEN "skipCache"
    ELSE IF q.method = "POST" /\ q.body = BadBody
    THEN "unparsed"
    ELSE "lookup"

\* Route without the preflight branch of the chat completions handler
RouteWithoutPreflight(q) ==
    IF IsVectorCacheRequest(q.pathname) /\ q.pathname = <<"vectorcache">>
    THEN "root"
    ELSE IF IsVectorCacheRequest(q.pathname)
            /\ q.pathname = ChatCompletionsPath /\ q.method = "POST"
    THEN IF q.body = BadBody THEN "chatError" ELSE "chatFetch"
    ELSE IF q.nocache \/ ModifiedPathname(q.pathname) \in nonCacheablePaths
    THEN "skipCache"
    ELSE IF q.method = "POST" /\ q.body = BadBody
    THEN "unparsed"
    ELSE "lookup"

\* where the synchronous head of fetch() sends a request
Route(q) ==
    IF IsVectorCacheRequest(q.pathname) /\ q.pathname = <<"vectorcache">>
    THEN "root"
    ELSE IF IsVectorCacheRequest(q.pathname)
            /\ q.pathname = ChatCompletionsPath /\ q.method = "POST"
    THEN IF q.body = BadBody THEN "chatError" ELSE "chatFetch"
    ELSE IF IsVectorCacheRequest(q.pathname)
            /\ q.pathname = ChatCompletionsPath /\ q.method = "OPTIONS"
    THEN "chatOptions"
    ELSE IF q.nocache \/ ModifiedPathname(q.pathname) \in nonCacheablePaths
    THEN "skipCache"
    ELSE IF q.method = "POST" /\ q.body = BadBody
    THEN "unparsed"
    ELSE "lookup"

\* the keys of all requests with a readable body
Keys == { CacheKeyOf(q) : q \in { x \in Requests : x.body # BadBody } }

\* the cacheability test on the origin's content type
IsTextResponse(contentType) ==
    \/ Includes(contentType, <<"text/">>)
    \/ Includes(contentType, <<"application/", "json">>)
    \/ Includes(contentType, <<"application/", "javascript">>)
    \/ Includes(contentType, <<"application/", "xml">>)
    \/ Includes(contentType, <<"application/", "ld+json">>)

IsStreamingResponse(contentType) ==
    Includes(contentType, <<"text/", "event-stream">>)

\* ShouldCache without the content-type test
ShouldCacheAnyType(response) == response.status = 200

ShouldCache(response) ==
    /\ response.status = 200
    /\ (IsTextResponse(response.contentType)
        \/ IsStreamingResponse(response.contentType))

\* a Response built by the worker itself
MakeResponse(status, body, contentType, xcache) ==
    [status |-> status, statusText |-> StatusText(status), body |-> body,
     contentType |-> contentType, xcache |-> xcache, similarity |-> -1,
     originalKey |-> Null]

\* querySimilarVectors: the matches the index returned, filtered by the
\* threshold and mapped to {cacheKey, score}
PassesThreshold(match) == match.score < (100 - SimilarityThreshold)

querySimilarVectors(matches) ==
    LET filteredMatches == SelectSeq(matches, PassesThreshold)
    IN  [i \in 1..Len(filteredMatches) |->
            [cacheKey |-> filteredMatches[i].metadata.cacheKey,
             score |-> filteredMatches[i].score]]

(***************************************************************************)
(* Values of the semantic cache with per-caller thresholds                 *)
(***************************************************************************)
\* token.substring(0, 8)
TokenHashLength == 8

\* no credential: null, undefined and the empty string are all falsy
NoToken == <<>>

\* two credentials with the same first eight characters
TokenA1 == <<"s", "k", "-", "u", "s", "e", "r", "1", "a">>

TokenA2 == <<"s", "k", "-", "u", "s", "e", "r", "1", "b">>

Tokens == {NoToken, TokenA1, TokenA2}

\* TokenHash that gives every caller the same identity
TokenHashShared(token) == <<"a", "n", "o", "n">>

\* token ? token.substring(0, 8) : "anon"
TokenHash(token) ==
    IF token = NoToken THEN <<"a", "n", "o", "n">>
    ELSE IF Len(token) <= TokenHashLength THEN token
    ELSE SubSeq(token, 1, TokenHashLength)

TokenHashes == { TokenHash(token) : token \in Tokens }

\* cacheKey: null of a result
NoKey == "none"

\* a context that is not in findSimilarText
NoCall ==
    [pc |-> "idle", token |-> NoToken, modelName |-> "unknown",
     userPrefix |-> "anon", matches |-> <<>>, threshold |-> 0,
     window |-> <<>>, result |-> Null]

(***************************************************************************)
(* Values of the uptime monitor                                            *)
(***************************************************************************)
\* const dangerous = ['__proto__', 'constructor', 'prototype']
DangerousNames == {"__proto__", "constructor", "prototype"}

\* model names passed to recordCheck
ModelNames == {"openai", "flux", "__proto__"}

\* type of a model
ModelTypes == {"text", "image"}

(***************************************************************************)
(* State                                                                   *)
(***************************************************************************)
VARIABLES
    bucket,          \* env.TEXT_BUCKET: key -> stored object or Null
    vindex,          \* env.VECTORIZE_CACHE: vector id -> metadata or Null
    vectorizeBound,  \* whether env.VECTORIZE_CACHE is bound
    pc,              \* per context: the await the handler is suspended at
    request,         \* per context: the inbound request
    bestMatch,       \* per context: similarVectors[0] of the semantic lookup
    sniffedType,     \* per context: content type chosen by the sniffing code
    response,        \* per context: the origin's answer (proxyToOrigin)
    result,          \* per context: the Response fetch() returned
    population,      \* per context: progress of cacheResponse() in waitUntil
    storeResult,     \* per context: outcome of the awaited storeVector()
    io,              \* per context: calls made for this request
    lookupFailed,    \* per context: the lookup of the own key raised
    lastPutAtGet,    \* per context: lastPut of the own key when it was read
    seenPopulated,   \* per context: bodies populated for this very request
                     \*   before it arrived
    heldAtArrival,   \* per context: the object under the key of the request
                     \*   when it arrived
    populated,       \* <<request, body>> of every completed population put
    lastPut,         \* key -> [body] of the last completed population put
    received,        \* number of requests received so far
    admit,           \* per context: the requests its clients send
    stats,           \* the RollingStats of a caller, Null where none exists
    tokenStats,      \* the Map tokenStats: token hash -> RollingStats or Null
    call,            \* per context: its findSimilarText call
    observed,        \* token hash -> every score added to its window so far
    asked,           \* number of findSimilarText calls so far
    uptimeData,      \* UptimeMonitor.uptimeData: model name -> record or Null
    checks,          \* model name -> every check recorded for it so far
    clock            \* Date.now()

ctxVars == <<pc, request, bestMatch, sniffedType, response, result,
             population, storeResult, io, lookupFailed, lastPutAtGet,
             seenPopulated, heldAtArrival>>
ghostVars == <<populated, lastPut, received, admit>>
semanticVars == <<tokenStats, call, observed, asked>>
uptimeVars == <<uptimeData, checks, clock>>
statsVars == <<stats, semanticVars, uptimeVars>>
vars == <<bucket, vindex, vectorizeBound, ctxVars, ghostVars, statsVars>>

\* calls made for one request, and the calls and computations that raised
NoCalls == [origin |-> 0, gets |-> 0, puts |-> 0, queries |-> 0, upserts |-> 0,
            getErrors |-> 0, queryErrors |-> 0, embeddingErrors |-> 0]

\* an object of the exact-match store
StoredObject(body, httpMetadata) == [body |-> body, httpMetadata |-> httpMetadata]

\* objects that were written to the bucket without HTTP metadata
LegacyBuckets ==
    LET key(stream) == generateCacheKey(<<"completion">>, stream, NoBody) IN
    { [k \in Keys |-> IF k = key(o[1]) THEN StoredObject(o[2], Null) ELSE Null] :
        o \in { <<FALSE, <<>> >>, <<FALSE, Body1>>, <<FALSE, Body2>>, <<TRUE, Body1>> } }

EmptyBucket == [k \in Keys |-> Null]

\* the part of the initial state that no workload changes
InitContexts ==
    /\ pc = [c \in Contexts |-> "idle"]
    /\ request = [c \in Contexts |-> Null]
    /\ bestMatch = [c \in Contexts |-> Null]
    /\ sniffedType = [c \in Contexts |-> <<>>]
    /\ response = [c \in Contexts |-> Null]
    /\ result = [c \in Contexts |-> Null]
    /\ population = [c \in Contexts |-> "none"]
    /\ storeResult = [c \in Contexts |-> "none"]
    /\ io = [c \in Contexts |-> NoCalls]
    /\ lookupFailed = [c \in Contexts |-> FALSE]
    /\ lastPutAtGet = [c \in Contexts |-> Null]
    /\ seenPopulated = [c \in Contexts |-> {}]
    /\ heldAtArrival = [c \in Contexts |-> Null]
    /\ populated = {}
    /\ lastPut = [k \in Keys |-> Null]
    /\ received = 0
    /\ tokenStats = [h \in TokenHashes |-> Null]
    /\ call = [c \in Contexts |-> NoCall]
    /\ observed = [h \in TokenHashes |-> <<>>]
    /\ asked = 0

\* new UptimeMonitor(): this.uptimeData = {}
InitMonitor ==
    /\ uptimeData = [name \in ModelNames |-> Null]
    /\ checks = [name \in ModelNames |-> <<>>]

\* one client after the other, any request
Init ==
    /\ bucket \in {EmptyBucket} \cup LegacyBuckets
    /\ vindex = [k \in Keys |-> Null]
    /\ vectorizeBound \in BOOLEAN
    /\ admit = [c \in Contexts |-> IF c = "c1" THEN Requests ELSE {}]
    /\ stats = Null
    /\ InitContexts
    /\ InitMonitor
    /\ clock = 0

\* derived locals of a running handler
isVectorCacheRequest(c) == IsVectorCacheRequest(request[c].pathname)
isStreamingRequest(c) == request[c].stream
cacheKey(c) == CacheKeyOf(request[c])
UsesVectorCache(c) == isVectorCacheRequest(c) /\ vectorizeBound

(***************************************************************************)
(* Arrival of a request: the synchronous head of fetch()                   *)
(***************************************************************************)
\* what every arrival does to the bookkeeping of its context
CanArrive(c) == pc[c] = "idle" /\ received < MaxRequests

Arrive(c, q) ==
    /\ received' = received + 1
    /\ admit' = admit
    /\ UNCHANGED statsVars
    /\ request' = [request EXCEPT ![c] = q]
    /\ seenPopulated' =
           [seenPopulated EXCEPT ![c] = { p[2] : p \in { x \in populated : x[1] = q } }]
    /\ heldAtArrival' =
           [heldAtArrival EXCEPT ![c] =
               IF q.body = BadBody THEN Null ELSE bucket[CacheKeyOf(q)]]

\* the handler returns r
Respond(c, r) ==
    /\ result' = [result EXCEPT ![c] = r]
    /\ pc' = [pc EXCEPT ![c] = "done"]

RootBody == <<"{", "ok">>
ErrorBody == <<"{", "error">>

\* GET/POST/... /vectorcache: the static status document
VectorcacheRoot(c) ==
    /\ CanArrive(c)
    /\ \E q \in admit[c] :
        /\ Route(q) = "root"
        /\ Arrive(c, q)
        /\ Respond(c, MakeResponse(200, RootBody, CtJson, "none"))
        /\ UNCHANGED <<bucket, vindex, vectorizeBound, bestMatch, sniffedType,
                       response, population, storeResult, io, lookupFailed,
                       lastPutAtGet, populated, lastPut>>

\* OPTIONS /vectorcache/v1/chat/completions: the CORS preflight answer
ChatCompletionsOptions(c) ==
    /\ CanArrive(c)
    /\ \E q \in admit[c] :
        /\ Route(q) = "chatOptions"
        /\ Arrive(c, q)
        /\ Respond(c, MakeResponse(204, <<>>, <<>>, "none"))
        /\ UNCHANGED <<bucket, vindex, vectorizeBound, bestMatch, sniffedType,
                       response, population, storeResult, io, lookupFailed,
                       lastPutAtGet, populated, lastPut>>

\* POST /vectorcache/v1/chat/completions whose body is not JSON: the catch
\* around request.clone().json() answers 500
ChatCompletionsBadBody(c) ==
    /\ CanArrive(c)
    /\ \E q \in admit[c] :
        /\ Route(q) = "chatError"
        /\ Arrive(c, q)
        /\ Respond(c, MakeResponse(500, ErrorBody, CtJson, "none"))
        /\ UNCHANGED <<bucket, vindex, vectorizeBound, bestMatch, sniffedType,
                       response, population, storeResult, io, lookupFailed,
                       lastPutAtGet, populated, lastPut>>

\* an arrival that suspends at its first await on the origin or the bucket
Suspend(c, q, label) ==
    /\ Arrive(c, q)
    /\ pc' = [pc EXCEPT ![c] = label]
    /\ UNCHANGED <<bucket, vindex, vectorizeBound, bestMatch, sniffedType,
                   response, result, population, storeResult, io,
                   lookupFailed, lastPutAtGet, populated, lastPut>>

\* POST /vectorcache/v1/chat/completions with a JSON body: forwarded as is
ChatCompletionsPost(c) ==
    /\ CanArrive(c)
    /\ \E q \in admit[c] : Route(q) = "chatFetch" /\ Suspend(c, q, "chatFetch")

\* no-cache or a non-cacheable path: return await proxyToOrigin(request, env)
SkipCache(c) ==
    /\ CanArrive(c)
    /\ \E q \in admit[c] : Route(q) = "skipCache" /\ Suspend(c, q, "skipFetch")

\* POST whose body is not JSON: return await proxyToOrigin(requestClone, env)
UnparsableBody(c) ==
    /\ CanArrive(c)
    /\ \E q \in admit[c] : Route(q) = "unparsed" /\ Suspend(c, q, "unparsedFetch")

\* everything else: generate the key and await TEXT_BUCKET.get(cacheKey)
StartLookup(c) ==
    /\ CanArrive(c)
    /\ \E q \in admit[c] : Route(q) = "lookup" /\ Suspend(c, q, "exactGet")

(***************************************************************************)
(* Calls to the origin that bypass the cache                               *)
(***************************************************************************)
CountCall(c, field) == [io EXCEPT ![c][field] = @ + 1]

\* a call that raised
CountFailure(c, field, error) ==
    [io EXCEPT ![c][field] = @ + 1, ![c][error] = @ + 1]

\* await fetch(originRequest) of the chat completions handler
ChatFetch(c) ==
    /\ pc[c] = "chatFetch"
    /\ io' = CountCall(c, "origin")
    /\ \/ \E o \in OriginResponses :
            /\ response' = [response EXCEPT ![c] = o]
            /\ Respond(c, o)
       \/ \* fetch() rejects: the catch answers 500
          /\ response' = response
          /\ Respond(c, MakeResponse(500, ErrorBody, CtJson, "none"))
    /\ UNCHANGED <<bucket, vindex, vectorizeBound, request, bestMatch,
                   sniffedType, population, storeResult, lookupFailed,
                   lastPutAtGet, seenPopulated, heldAtArrival, ghostVars, statsVars>>

\* return await proxyToOrigin(...): the origin's response, untouched
ProxyFetch(c) ==
    /\ pc[c] \in {"skipFetch", "unparsedFetch"}
    /\ io' = CountCall(c, "origin")
    /\ \E o \in OriginResponses :
            /\ response' = [response EXCEPT ![c] = o]
            /\ Respond(c, o)
    /\ UNCHANGED <<bucket, vindex, vectorizeBound, request, bestMatch,
                   sniffedType, population, storeResult, lookupFailed,
                   lastPutAtGet, seenPopulated, heldAtArrival, ghostVars, statsVars>>

(***************************************************************************)
(* Exact-match lookup                                                      *)
(***************************************************************************)
\* after "Cache miss for": the semantic lookup or the origin
AfterMiss(c) == IF UsesVectorCache(c) THEN "vectorQuery" ELSE "originFetch"

\* content-type header of a response served from a stored object
CachedContentType(object, fallback) ==
    IF object.httpMetadata # Null
    THEN object.httpMetadata.contentType
    ELSE fallback

\* HitResponse without the x-cache header
HitResponseUnmarked(object, fallback) ==
    MakeResponse(200, object.body, CachedContentType(object, fallback), "none")

\* new Response(cachedResponse.body, {headers: cachedHeaders}) with x-cache
HitResponse(object, fallback) ==
    MakeResponse(200, object.body, CachedContentType(object, fallback), "HIT")

\* the response of the sniffing branch: only the content type is set
SniffedResponse(object, contentType) ==
    MakeResponse(200, object.body, contentType, "none")

\* the first character of the body decides the sniffed type
SniffType(body) ==
    IF body[1] = "{" \/ body[1] = "[" THEN CtJsonUtf8 ELSE CtPlainUtf8

\* const cachedResponse = await env.TEXT_BUCKET.get(cacheKey) and the code
\* up to the next await
ExactGet(c) ==
    /\ pc[c] = "exactGet"
    /\ \/ \* the get raises: logged, treated as a miss
          /\ io' = CountFailure(c, "gets", "getErrors")
          /\ lookupFailed' = [lookupFailed EXCEPT ![c] = TRUE]
          /\ pc' = [pc EXCEPT ![c] = AfterMiss(c)]
          /\ UNCHANGED <<result, sniffedType, lastPutAtGet>>
       \/ LET cachedResponse == bucket[cacheKey(c)] IN
          /\ io' = CountCall(c, "gets")
          /\ lastPutAtGet' = [lastPutAtGet EXCEPT ![c] = lastPut[cacheKey(c)]]
          /\ IF cachedResponse = Null
             THEN /\ pc' = [pc EXCEPT ![c] = AfterMiss(c)]
                  /\ UNCHANGED <<result, sniffedType, lookupFailed>>
             ELSE IF cachedResponse.httpMetadata # Null \/ isStreamingRequest(c)
             THEN /\ Respond(c, HitResponse(cachedResponse, CtEventStreamUtf8))
                  /\ UNCHANGED <<sniffedType, lookupFailed>>
             ELSE IF cachedResponse.body = <<>>
             THEN \* reader.read() yields no chunk, value.slice raises, and
                  \* the locked body cannot be wrapped in a Response: the
                  \* outer catch logs and the request goes on as a miss
                  /\ lookupFailed' = [lookupFailed EXCEPT ![c] = TRUE]
                  /\ pc' = [pc EXCEPT ![c] = AfterMiss(c)]
                  /\ UNCHANGED <<result, sniffedType>>
             ELSE /\ sniffedType' =
                      [sniffedType EXCEPT ![c] = SniffType(cachedResponse.body)]
                  /\ pc' = [pc EXCEPT ![c] = "sniffGet"]
                  /\ UNCHANGED <<result, lookupFailed>>
    /\ UNCHANGED <<bucket, vindex, vectorizeBound, request, bestMatch,
                   response, population, storeResult, seenPopulated, heldAtArrival,
                   ghostVars, statsVars>>

\* let freshCachedResponse = await env.TEXT_BUCKET.get(cacheKey)
SniffGet(c) ==
    /\ pc[c] = "sniffGet"
    /\ \/ \* the get raises; the body read before is locked: a miss
          /\ io' = CountFailure(c, "gets", "getErrors")
          /\ lookupFailed' = [lookupFailed EXCEPT ![c] = TRUE]
          /\ pc' = [pc EXCEPT ![c] = AfterMiss(c)]
          /\ UNCHANGED result
       \/ /\ bucket[cacheKey(c)] # Null
          /\ io' = CountCall(c, "gets")
          /\ Respond(c, SniffedResponse(bucket[cacheKey(c)], sniffedType[c]))
          /\ UNCHANGED lookupFailed
    /\ UNCHANGED <<bucket, vindex, vectorizeBound, request, bestMatch,
                   sniffedType, response, population, storeResult,
                   lastPutAtGet, seenPopulated, heldAtArrival, ghostVars, statsVars>>

(***************************************************************************)
(* Semantic lookup                                                         *)
(***************************************************************************)
StoredIds == { k \in Keys : vindex[k] # Null }

Min(a, b) == IF a < b THEN a ELSE b

\* what VECTORIZE_CACHE.query may return: up to topK stored vectors, each
\* once, nearest (lowest distance) first
IndexAnswers ==
    LET n == Min(Cardinality(StoredIds), TopK) IN
    { [i \in 1..n |-> [id |-> m[i].id, score |-> m[i].score,
                       metadata |-> vindex[m[i].id]]] :
        m \in { f \in [1..n -> [id : StoredIds, score : Scores]] :
                  /\ \A i, j \in 1..n : i # j => f[i].id # f[j].id
                  /\ \A i, j \in 1..n : i < j => f[i].score <= f[j].score } }

\* VectorHitResponse without the similarity and original-key headers
VectorHitResponseUnreported(object, match, stream) ==
    MakeResponse(200, object.body,
                 CachedContentType(object,
                     IF stream THEN CtEventStreamUtf8 ELSE CtJsonUtf8),
                 "VECTOR-HIT")

\* new Response(similarCachedResponse.body, ...) of the semantic hit
VectorHitResponse(object, match, stream) ==
    [MakeResponse(200, object.body,
                  CachedContentType(object,
                      IF stream THEN CtEventStreamUtf8 ELSE CtJsonUtf8),
                  "VECTOR-HIT")
        EXCEPT !.similarity = match.score, !.originalKey = match.cacheKey]

\* VectorLookupCatch that fails the request
VectorLookupRethrow(c) ==
    /\ Respond(c, MakeResponse(500, ErrorBody, CtJson, "none"))
    /\ UNCHANGED bestMatch

\* catch (error) of the vector lookup: the error is logged and the handler
\* goes on to the origin
VectorLookupCatch(c) ==
    /\ pc' = [pc EXCEPT ![c] = "originFetch"]
    /\ UNCHANGED <<bestMatch, result>>

\* const bestMatch = similarVectors[0]: the matches the handler may go on
\* with
SelectMatch(similarVectors) == {similarVectors[1]}

\* VectorQuery whose query failure is not caught by querySimilarVectors
VectorQueryUncaught(c) ==
    /\ pc[c] = "vectorQuery"
    /\ \/ /\ io' = [io EXCEPT ![c].embeddingErrors = @ + 1]
          /\ VectorLookupCatch(c)
       \/ /\ io' = CountFailure(c, "queries", "queryErrors")
          /\ Respond(c, MakeResponse(500, ErrorBody, CtJson, "none"))
          /\ UNCHANGED bestMatch
       \/ /\ io' = CountCall(c, "queries")
          /\ \E matches \in IndexAnswers :
               LET similarVectors == querySimilarVectors(matches) IN
               IF Len(similarVectors) > 0
               THEN /\ bestMatch' = [bestMatch EXCEPT ![c] = similarVectors[1]]
                    /\ pc' = [pc EXCEPT ![c] = "similarGet"]
                    /\ UNCHANGED result
               ELSE /\ pc' = [pc EXCEPT ![c] = "originFetch"]
                    /\ UNCHANGED <<bestMatch, result>>
    /\ UNCHANGED <<bucket, vindex, vectorizeBound, request, sniffedType,
                   response, population, storeResult, lookupFailed,
                   lastPutAtGet, seenPopulated, heldAtArrival, ghostVars, statsVars>>

\* const vector = generateVectorEmbedding(url, requestBody) and
\* const similarVectors = await querySimilarVectors(vector, env, 5, 0.8)
VectorQuery(c) ==
    /\ pc[c] = "vectorQuery"
    /\ \/ \* generateVectorEmbedding raises
          /\ io' = [io EXCEPT ![c].embeddingErrors = @ + 1]
          /\ VectorLookupCatch(c)
       \/ \* the query raises: querySimilarVectors logs it and returns []
          /\ io' = CountFailure(c, "queries", "queryErrors")
          /\ pc' = [pc EXCEPT ![c] = "originFetch"]
          /\ UNCHANGED <<bestMatch, result>>
       \/ /\ io' = CountCall(c, "queries")
          /\ \E matches \in IndexAnswers :
               LET similarVectors == querySimilarVectors(matches) IN
               IF Len(similarVectors) > 0
               THEN /\ \E match \in SelectMatch(similarVectors) :
                         bestMatch' = [bestMatch EXCEPT ![c] = match]
                    /\ pc' = [pc EXCEPT ![c] = "similarGet"]
                    /\ UNCHANGED result
               ELSE /\ pc' = [pc EXCEPT ![c] = "originFetch"]
                    /\ UNCHANGED <<bestMatch, result>>
    /\ UNCHANGED <<bucket, vindex, vectorizeBound, request, sniffedType,
                   response, population, storeResult, lookupFailed,
                   lastPutAtGet, seenPopulated, heldAtArrival, ghostVars, statsVars>>

\* ResolveMatch that answers as a semantic hit with an empty body when the
\* store has no entry under the key of the match
ResolveMatchServesMissing(c, similarCachedResponse) ==
    Respond(c, IF similarCachedResponse # Null
               THEN VectorHitResponse(similarCachedResponse, bestMatch[c],
                                      isStreamingRequest(c))
               ELSE MakeResponse(200, <<>>, CtJsonUtf8, "VECTOR-HIT"))

\* if (similarCachedResponse) { ... return new Response(...) }; otherwise
\* the handler leaves the lookup and goes on to the origin
ResolveMatch(c, similarCachedResponse) ==
    IF similarCachedResponse # Null
    THEN Respond(c, VectorHitResponse(similarCachedResponse, bestMatch[c],
                                      isStreamingRequest(c)))
    ELSE pc' = [pc EXCEPT ![c] = "originFetch"] /\ UNCHANGED result

\* SimilarGet whose failing get is not caught
SimilarGetUncaught(c) ==
    /\ pc[c] = "similarGet"
    /\ \/ /\ io' = CountFailure(c, "gets", "getErrors")
          /\ VectorLookupRethrow(c)
       \/ LET similarCachedResponse == bucket[bestMatch[c].cacheKey] IN
          /\ io' = CountCall(c, "gets")
          /\ IF similarCachedResponse # Null
             THEN Respond(c, VectorHitResponse(similarCachedResponse,
                                               bestMatch[c], isStreamingRequest(c)))
             ELSE pc' = [pc EXCEPT ![c] = "originFetch"] /\ UNCHANGED result
          /\ UNCHANGED bestMatch
    /\ UNCHANGED <<bucket, vindex, vectorizeBound, request,
                   sniffedType, response, population, storeResult,
                   lookupFailed, lastPutAtGet, seenPopulated, heldAtArrival, ghostVars, statsVars>>

\* await env.TEXT_BUCKET.get(bestMatch.cacheKey)
SimilarGet(c) ==
    /\ pc[c] = "similarGet"
    /\ \/ \* the get raises
          /\ io' = CountFailure(c, "gets", "getErrors")
          /\ VectorLookupCatch(c)
       \/ /\ io' = CountCall(c, "gets")
          /\ ResolveMatch(c, bucket[bestMatch[c].cacheKey])
          /\ UNCHANGED bestMatch
    /\ UNCHANGED <<bucket, vindex, vectorizeBound, request,
                   sniffedType, response, population, storeResult,
                   lookupFailed, lastPutAtGet, seenPopulated, heldAtArrival, ghostVars, statsVars>>

(***************************************************************************)
(* Miss: the origin call, the response and the population                  *)
(***************************************************************************)
\* MissResponse without the status and statusText of the origin
MissResponseDefaultStatus(response_) ==
    [response_ EXCEPT !.xcache = "MISS", !.status = 200, !.statusText = "OK"]

\* new Response(response.body, {status, statusText, headers + x-cache})
MissResponse(response_) == [response_ EXCEPT !.xcache = "MISS"]

\* OriginFetch that joins the origin call another request for the same key
\* has in flight
OriginFetchCoalesced(c) ==
    /\ pc[c] = "originFetch"
    /\ \E o \in OriginResponses :
        LET inFlight == { d \in Contexts \ {c} :
                            /\ response[d] # Null
                            /\ pc[d] \in {"storeVector", "done"}
                            /\ cacheKey(d) = cacheKey(c) }
            joined == inFlight # {}
            r == IF joined THEN response[CHOOSE d \in inFlight : TRUE] ELSE o
        IN  /\ io' = IF joined THEN io ELSE CountCall(c, "origin")
            /\ response' = [response EXCEPT ![c] = r]
            /\ IF ShouldCache(r)
               THEN /\ population' = [population EXCEPT ![c] = "reading"]
                    /\ IF UsesVectorCache(c)
                       THEN /\ pc' = [pc EXCEPT ![c] = "storeVector"]
                            /\ UNCHANGED result
                       ELSE Respond(c, MissResponse(r))
               ELSE /\ Respond(c, MissResponse(r))
                    /\ UNCHANGED population
    /\ UNCHANGED <<bucket, vindex, vectorizeBound, request, bestMatch,
                   sniffedType, storeResult, lookupFailed, lastPutAtGet,
                   seenPopulated, heldAtArrival, ghostVars, statsVars>>

\* const response = await proxyToOrigin(requestClone, env) and the code up
\* to the await of storeVector or the return
OriginFetch(c) ==
    /\ pc[c] = "originFetch"
    /\ io' = CountCall(c, "origin")
    /\ \E o \in OriginResponses :
        /\ response' = [response EXCEPT ![c] = o]
        /\ IF ShouldCache(o)
           THEN \* ctx.waitUntil(cacheResponse(cacheKey, response.clone(), ...))
                /\ population' = [population EXCEPT ![c] = "reading"]
                /\ IF UsesVectorCache(c)
                   THEN /\ pc' = [pc EXCEPT ![c] = "storeVector"]
                        /\ UNCHANGED result
                   ELSE Respond(c, MissResponse(o))
           ELSE /\ Respond(c, MissResponse(o))
                /\ UNCHANGED population
    /\ UNCHANGED <<bucket, vindex, vectorizeBound, request, bestMatch,
                   sniffedType, storeResult, lookupFailed, lastPutAtGet,
                   seenPopulated, heldAtArrival, ghostVars, statsVars>>

\* VectorObject with a metadata key that is not the id
VectorObjectOtherKey(key) ==
    [id |-> key, metadata |-> [cacheKey |-> CHOOSE k \in Keys : k # key]]

\* const vectorObject = { id: cacheKey, values: vector, metadata: metadata }
\* with metadata.cacheKey = cacheKey
VectorObject(key) == [id |-> key, metadata |-> [cacheKey |-> key]]

\* env.VECTORIZE_CACHE.upsert([vectorObject])
Upsert(index, vectorObject) ==
    [index EXCEPT ![vectorObject.id] = vectorObject.metadata]

\* StoreVector whose failure escapes both catch blocks
StoreVectorUncaught(c) ==
    /\ pc[c] = "storeVector"
    /\ io' = CountCall(c, "upserts")
    /\ \/ /\ vindex' = [vindex EXCEPT ![cacheKey(c)] = [cacheKey |-> cacheKey(c)]]
          /\ storeResult' = [storeResult EXCEPT ![c] = "ok"]
          /\ Respond(c, MissResponse(response[c]))
       \/ /\ storeResult' = [storeResult EXCEPT ![c] = "failed"]
          /\ Respond(c, MakeResponse(500, ErrorBody, CtJson, "none"))
          /\ UNCHANGED vindex
    /\ UNCHANGED <<bucket, vectorizeBound, request, bestMatch, sniffedType,
                   response, population, lookupFailed, lastPutAtGet,
                   seenPopulated, heldAtArrival, ghostVars, statsVars>>

\* const storeResult = await storeVector(cacheKey, vector, url, requestBody,
\* env): one upsert under the cache key, errors are logged and yield null
StoreVector(c) ==
    /\ pc[c] = "storeVector"
    /\ \/ \* generateVectorEmbedding raises: the catch around it logs it
          /\ io' = [io EXCEPT ![c].embeddingErrors = @ + 1]
          /\ UNCHANGED <<vindex, storeResult>>
       \/ /\ io' = CountCall(c, "upserts")
          /\ vindex' = Upsert(vindex, VectorObject(cacheKey(c)))
          /\ storeResult' = [storeResult EXCEPT ![c] = "ok"]
       \/ /\ io' = CountCall(c, "upserts")
          /\ storeResult' = [storeResult EXCEPT ![c] = "failed"]
          /\ UNCHANGED vindex
    /\ Respond(c, MissResponse(response[c]))
    /\ UNCHANGED <<bucket, vectorizeBound, request, bestMatch, sniffedType,
                   response, population, lookupFailed, lastPutAtGet,
                   seenPopulated, heldAtArrival, ghostVars, statsVars>>

\* cacheResponse(): the put of the cloned body with its content type, once
\* the body has been read; a failure is logged and dropped
CacheResponsePut(c) ==
    /\ population[c] = "reading"
    /\ io' = CountCall(c, "puts")
    /\ \/ /\ bucket' = [bucket EXCEPT ![cacheKey(c)] =
                 StoredObject(response[c].body,
                              [contentType |-> response[c].contentType])]
          /\ population' = [population EXCEPT ![c] = "stored"]
          /\ populated' = populated \cup {<<request[c], response[c].body>>}
          /\ lastPut' = [lastPut EXCEPT ![cacheKey(c)] = [body |-> response[c].body]]
       \/ /\ population' = [population EXCEPT ![c] = "failed"]
          /\ UNCHANGED <<bucket, populated, lastPut>>
    /\ UNCHANGED <<vindex, vectorizeBound, pc, request, bestMatch, sniffedType,
                   response, result, storeResult, lookupFailed, lastPutAtGet,
                   seenPopulated, heldAtArrival, received, admit, statsVars>>

\* the response is delivered and every waitUntil promise has settled: the
\* execution context is released
Finish(c) ==
    /\ pc[c] = "done"
    /\ population[c] # "reading"
    /\ pc' = [pc EXCEPT ![c] = "idle"]
    /\ request' = [request EXCEPT ![c] = Null]
    /\ bestMatch' = [bestMatch EXCEPT ![c] = Null]
    /\ sniffedType' = [sniffedType EXCEPT ![c] = <<>>]
    /\ response' = [response EXCEPT ![c] = Null]
    /\ result' = [result EXCEPT ![c] = Null]
    /\ population' = [population EXCEPT ![c] = "none"]
    /\ storeResult' = [storeResult EXCEPT ![c] = "none"]
    /\ io' = [io EXCEPT ![c] = NoCalls]
    /\ lookupFailed' = [lookupFailed EXCEPT ![c] = FALSE]
    /\ lastPutAtGet' = [lastPutAtGet EXCEPT ![c] = Null]
    /\ seenPopulated' = [seenPopulated EXCEPT ![c] = {}]
    /\ heldAtArrival' = [heldAtArrival EXCEPT ![c] = Null]
    /\ UNCHANGED <<bucket, vindex, vectorizeBound, ghostVars, statsVars>>

Next ==
    \E c \in Contexts :
        \/ VectorcacheRoot(c)
        \/ ChatCompletionsOptions(c)
        \/ ChatCompletionsBadBody(c)
        \/ ChatCompletionsPost(c)
        \/ SkipCache(c)
        \/ UnparsableBody(c)
        \/ StartLookup(c)
        \/ ChatFetch(c)
        \/ ProxyFetch(c)
        \/ ExactGet(c)
        \/ SniffGet(c)
        \/ VectorQuery(c)
        \/ SimilarGet(c)
        \/ OriginFetch(c)
        \/ StoreVector(c)
        \/ CacheResponsePut(c)
        \/ Finish(c)

Spec == Init /\ [][Next]_vars

(***************************************************************************)
(* The lookup flow alone: concurrent requests, and a silent vector index    *)
(***************************************************************************)
\* cacheable requests for one key, with and without the /vectorcache prefix
LookupRequests ==
    { q \in Requests : /\ q.method = "GET" /\ ~q.nocache /\ ~q.stream
                       /\ q.pathname \in CompletionPaths }

\* both stores empty, two clients sending at the same time: one under the
\* /vectorcache prefix, the other without it
InitRace ==
    /\ bucket = EmptyBucket
    /\ vindex = [k \in Keys |-> Null]
    /\ vectorizeBound = TRUE
    /\ admit = [c \in Contexts |->
                  { q \in LookupRequests :
                      IsVectorCacheRequest(q.pathname) <=> (c = "c1") }]
    /\ stats = Null
    /\ InitContexts
    /\ InitMonitor
    /\ clock = 0

\* the steps of a request that takes the lookup route
NextLookup ==
    \E c \in Contexts :
        \/ StartLookup(c)
        \/ ExactGet(c)
        \/ VectorQuery(c)
        \/ SimilarGet(c)
        \/ OriginFetch(c)
        \/ StoreVector(c)
        \/ CacheResponsePut(c)
        \/ Finish(c)

SpecRace == InitRace /\ [][NextLookup]_vars

\* both stores empty, one client after the other
InitHang ==
    /\ bucket = EmptyBucket
    /\ vindex = [k \in Keys |-> Null]
    /\ vectorizeBound \in BOOLEAN
    /\ admit = [c \in Contexts |-> IF c = "c1" THEN LookupRequests ELSE {}]
    /\ stats = Null
    /\ InitContexts
    /\ InitMonitor
    /\ clock = 0

\* every step of a handler changes its position or that of its population
progress == <<pc, population>>

\* the worker runs every step that is its own, and the exact store and the
\* origin answer within their budgets; nothing in the handler bounds the
\* time the vector index takes to answer the query, so the step of
\* VectorQuery is not under any fairness condition
HandlerFairness ==
    \A c \in Contexts :
        /\ WF_progress(ExactGet(c))
        /\ WF_progress(SimilarGet(c))
        /\ WF_progress(OriginFetch(c))
        /\ WF_progress(StoreVector(c))
        /\ WF_progress(CacheResponsePut(c))
        /\ WF_progress(Finish(c))

SpecHang == InitHang /\ [][NextLookup]_vars /\ HandlerFairness

\* a store holding an object without HTTP metadata, the index not bound, two
\* clients sending the request of that object at the same time
SniffRequests ==
    { q \in LookupRequests : q.pathname = <<"completion">> }

InitSniffRace ==
    /\ bucket \in LegacyBuckets
    /\ vindex = [k \in Keys |-> Null]
    /\ vectorizeBound = FALSE
    /\ admit = [c \in Contexts |-> SniffRequests]
    /\ stats = Null
    /\ InitContexts
    /\ InitMonitor
    /\ clock = 0

\* the steps of a request that takes the lookup route without the index
NextSniff ==
    \E c \in Contexts :
        \/ StartLookup(c)
        \/ ExactGet(c)
        \/ SniffGet(c)
        \/ OriginFetch(c)
        \/ CacheResponsePut(c)
        \/ Finish(c)

SpecSniffRace == InitSniffRace /\ [][NextSniff]_vars

(***************************************************************************)
(* RollingStats: the rolling window of similarity scores of one caller and  *)
(* the threshold computed from it.  Scores are in hundredths: 90 is 0.9.    *)
(***************************************************************************)
\* the largest windowSize of the instances constructed (200 by default)
MaxWindow == 8

\* this.scores.length < 7
MinSamples == 7

\* return 0.9
DefaultThreshold == 90

\* targetHitRate of the instances constructed (20 by default)
TargetHitRates == {0, 20, 50}

\* windowSize of the instances constructed: the smallest window that leaves
\* the cold start, and the largest of the model
WindowSizes == {MinSamples, MaxWindow}

\* similarity scores in [0, 1]
ScoreValues == {0, 10, 30, 50, 70, 85, 90, 95}

\* constructor(windowSize = 200, targetHitRate = 20)
RollingStats(windowSize, targetHitRate) ==
    [scores |-> <<>>, windowSize |-> windowSize, targetHitRate |-> targetHitRate]

\* addScore that drops the score just pushed on overflow
addScoreDropNewest(self, score) ==
    LET pushed == Append(self.scores, score) IN
    [self EXCEPT !.scores =
        IF Len(pushed) > self.windowSize THEN self.scores ELSE pushed]

\* addScore(score): push, and shift the oldest score out on overflow
addScore(self, score) ==
    LET pushed == Append(self.scores, score) IN
    [self EXCEPT !.scores =
        IF Len(pushed) > self.windowSize THEN Tail(pushed) ELSE pushed]

\* Insert(sorted, x): x put before the first element greater than x
RECURSIVE Insert(_, _)
Insert(sorted, x) ==
    IF sorted = <<>> THEN <<x>>
    ELSE IF x < Head(sorted) THEN <<x>> \o sorted
    ELSE <<Head(sorted)>> \o Insert(Tail(sorted), x)

\* SortAscending that leaves the window in arrival order
ArrivalOrder(seq) == seq

\* [...this.scores].sort((a, b) => a - b)
RECURSIVE SortAscending(_)
SortAscending(seq) ==
    IF seq = <<>> THEN <<>>
    ELSE Insert(SortAscending(Tail(seq)), Head(seq))

\* PercentileIndex one position lower
PercentileIndexBelow(targetHitRate, length) ==
    (((100 - targetHitRate) * length) \div 100) - 1

\* Math.floor(((100 - this.targetHitRate) / 100) * sorted.length), 0-based
PercentileIndex(targetHitRate, length) ==
    ((100 - targetHitRate) * length) \div 100

\* getDynamicThreshold without the cold-start test
PercentileOfAnyWindow(self) ==
    LET sorted == SortAscending(self.scores)
        index == PercentileIndex(self.targetHitRate, Len(sorted))
    IN  IF index + 1 \in DOMAIN sorted /\ sorted[index + 1] # 0
        THEN sorted[index + 1]
        ELSE DefaultThreshold

\* RollingStats.getDynamicThreshold(): sorted[index] || 0.9, where an index
\* past the end and a score of 0 are both falsy
RollingStats_getDynamicThreshold(self) ==
    IF Len(self.scores) < MinSamples
    THEN DefaultThreshold
    ELSE LET sorted == SortAscending(self.scores)
             index == PercentileIndex(self.targetHitRate, Len(sorted))
         IN  IF index + 1 \in DOMAIN sorted /\ sorted[index + 1] # 0
             THEN sorted[index + 1]
             ELSE DefaultThreshold

\* the windows the score streams of the model fill: streams of at most two
\* different scores, and streams whose scores in the window are all different
Range(seq) == { seq[i] : i \in DOMAIN seq }

ObservedWindow(scores) ==
    \/ Cardinality(Range(scores)) <= 2
    \/ Cardinality(Range(scores)) = Len(scores)

\* a window of a new instance, no request in the worker
InitStats ==
    /\ bucket = EmptyBucket
    /\ vindex = [k \in Keys |-> Null]
    /\ vectorizeBound = FALSE
    /\ admit = [c \in Contexts |-> {}]
    /\ InitContexts
    /\ InitMonitor
    /\ clock = 0
    /\ stats \in { RollingStats(w, t) : w \in WindowSizes, t \in TargetHitRates }

\* stats.addScore(match.score)
AddScore(score) ==
    /\ stats # Null
    /\ ObservedWindow(addScore(stats, score).scores)
    /\ stats' = addScore(stats, score)
    /\ UNCHANGED <<bucket, vindex, vectorizeBound, ctxVars, ghostVars,
                   semanticVars, uptimeVars>>

NextStats == \E score \in ScoreValues : AddScore(score)

SpecStats == InitStats /\ [][NextStats]_vars

(***************************************************************************)
(* findSimilarText: the lookup of the semantic cache with one rolling      *)
(* window per caller.  tokenStats is the module-level Map.                  *)
(***************************************************************************)
\* the largest number of findSimilarText calls in one behaviour
MaxQueries == 3

\* new RollingStats(): the default target hit rate
DefaultTargetHitRate == 20

\* new RollingStats(): the window of the instances of the Map (200 in the
\* program), here the smallest window that leaves the cold start
TokenWindowSize == MinSamples

\* similarity scores the index reports: one below and one above 0.9
FindScores == {85, 95}

\* topK: 3
FindTopK == 3

\* ids of the entries of the index, in the order of an answer
VectorIds == <<"v1", "v2", "v3">>

\* model names and caller prefixes of findSimilarText and cacheTextEmbedding;
\* "unknown" and "anon" are the defaults of the parameters
ModelNamesAsked == {"unknown", "openai"}

UserPrefixes == {"anon", "alice"}

\* metadata: { model, userPrefix, cached_at } of the entries of the index,
\* as cacheTextEmbedding stored them
VectorMetadata ==
    [id \in Range(VectorIds) |->
        IF id = "v1" THEN [model |-> "openai", userPrefix |-> "alice"]
        ELSE IF id = "v2" THEN [model |-> "unknown", userPrefix |-> "alice"]
        ELSE [model |-> "openai", userPrefix |-> "anon"]]

\* searchResults.matches: at most topK matches, the most similar first,
\* with their metadata (returnMetadata: "all")
QueryAnswers ==
    UNION { { [i \in 1..n |-> [id |-> VectorIds[i], score |-> f[i],
                               metadata |-> VectorMetadata[VectorIds[i]]]] :
                f \in { g \in [1..n -> FindScores] :
                          \A i \in 1..(n - 1) : g[i] >= g[i + 1] } } :
            n \in 0..FindTopK }

MatchScores(matches) == [i \in DOMAIN matches |-> matches[i].score]

\* getTokenStats that replaces the window of the caller by a new one
getTokenStatsAlwaysNew(map, tokenHash) ==
    [map EXCEPT ![tokenHash] = RollingStats(TokenWindowSize, DefaultTargetHitRate)]

\* getTokenStats(tokenHash): the Map after the call; the instance returned
\* is its entry at tokenHash
getTokenStats(map, tokenHash) ==
    IF map[tokenHash] = Null
    THEN [map EXCEPT ![tokenHash] =
              RollingStats(TokenWindowSize, DefaultTargetHitRate)]
    ELSE map

\* searchResults.matches.forEach(match => stats.addScore(match.score))
RECURSIVE AddScores(_, _)
AddScores(self, scores) ==
    IF scores = <<>> THEN self
    ELSE AddScores(addScore(self, Head(scores)), Tail(scores))

\* getDynamicThreshold that uses the window "anon" for a caller without a
\* credential
getDynamicThresholdOfWindow(map, token) ==
    RollingStats_getDynamicThreshold(
        getTokenStats(map, TokenHash(token))[TokenHash(token)])

\* getDynamicThreshold(token): the threshold returned
getDynamicThreshold(map, token) ==
    IF token = NoToken THEN DefaultThreshold
    ELSE RollingStats_getDynamicThreshold(
             getTokenStats(map, TokenHash(token))[TokenHash(token)])

\* getDynamicThreshold(token): the Map after the call
AfterGetDynamicThreshold(map, token) ==
    IF token = NoToken THEN map ELSE getTokenStats(map, TokenHash(token))

\* FeedAndClassify with the threshold computed before the scores are added
ClassifyBeforeFeed(map, token, matches) ==
    LET tokenHash == TokenHash(token)
        created == getTokenStats(map, tokenHash)
        fed == [created EXCEPT ![tokenHash] = AddScores(@, MatchScores(matches))]
        dynamicThreshold == getDynamicThreshold(created, token)
    IN  [tokenStats |-> AfterGetDynamicThreshold(fed, token),
         window |-> fed[tokenHash].scores,
         dynamicThreshold |-> dynamicThreshold,
         aboveThresholdMatches |->
             SelectSeq(matches, LAMBDA match : match.score >= dynamicThreshold)]

\* the scores of the answer are added to the window of the caller, then the
\* threshold is computed and the matches are filtered
FeedAndClassify(map, token, matches) ==
    LET tokenHash == TokenHash(token)
        created == getTokenStats(map, tokenHash)
        fed == [created EXCEPT ![tokenHash] = AddScores(@, MatchScores(matches))]
        dynamicThreshold == getDynamicThreshold(fed, token)
    IN  [tokenStats |-> AfterGetDynamicThreshold(fed, token),
         window |-> fed[tokenHash].scores,
         dynamicThreshold |-> dynamicThreshold,
         aboveThresholdMatches |->
             SelectSeq(matches, LAMBDA match : match.score >= dynamicThreshold)]

\* Math.floor(Math.random() * aboveThresholdMatches.length): the matches
\* the random index may select
SelectedMatches(aboveThresholdMatches) == Range(aboveThresholdMatches)

\* FindResult that reports every result as above the threshold
FindResultAlwaysAbove(key, similarity, model, userPrefix, aboveThreshold) ==
    [cacheKey |-> key, similarity |-> similarity, model |-> model,
     userPrefix |-> userPrefix, aboveThreshold |-> TRUE]

\* the object findSimilarText returns
FindResult(key, similarity, model, userPrefix, aboveThreshold) ==
    [cacheKey |-> key, similarity |-> similarity, model |-> model,
     userPrefix |-> userPrefix, aboveThreshold |-> aboveThreshold]

\* findSimilarText(cache, text, modelName, userPrefix, token) up to the
\* awaited embedding and query
FindSimilarText(c, modelName, userPrefix, token) ==
    /\ call[c].pc = "idle"
    /\ asked < MaxQueries
    /\ asked' = asked + 1
    /\ call' = [call EXCEPT ![c] =
                    [NoCall EXCEPT !.pc = "query", !.token = token,
                                   !.modelName = modelName,
                                   !.userPrefix = userPrefix]]
    /\ UNCHANGED <<bucket, vindex, vectorizeBound, ctxVars, ghostVars, stats,
                   tokenStats, observed, uptimeVars>>

\* the code after await cache.vectorize.query(...), up to the return
VectorizeQuery(c) ==
    /\ call[c].pc = "query"
    /\ \/ \* catch (error): the embedding or the query raised
          /\ call' = [call EXCEPT ![c].pc = "returned"]
          /\ UNCHANGED <<tokenStats, observed>>
       \/ \E matches \in QueryAnswers :
            LET token == call[c].token IN
            IF Len(matches) = 0
            THEN /\ tokenStats' = AfterGetDynamicThreshold(tokenStats, token)
                 /\ call' = [call EXCEPT ![c] =
                        [@ EXCEPT !.pc = "returned",
                                  !.threshold = getDynamicThreshold(tokenStats, token),
                                  !.result = FindResult(NoKey, 0,
                                      call[c].modelName, call[c].userPrefix,
                                      FALSE)]]
                 /\ UNCHANGED observed
            ELSE LET fed == FeedAndClassify(tokenStats, token, matches) IN
                 /\ tokenStats' = fed.tokenStats
                 /\ observed' = [observed EXCEPT ![TokenHash(token)] =
                                     @ \o MatchScores(matches)]
                 /\ \E found \in
                        IF Len(fed.aboveThresholdMatches) > 0
                        THEN { FindResult(selectedMatch.id, selectedMatch.score,
                                          selectedMatch.metadata.model,
                                          selectedMatch.metadata.userPrefix, TRUE) :
                                 selectedMatch \in SelectedMatches(fed.aboveThresholdMatches) }
                        ELSE { FindResult(NoKey, matches[1].score,
                                          matches[1].metadata.model,
                                          matches[1].metadata.userPrefix, FALSE) } :
                      call' = [call EXCEPT ![c] =
                        [@ EXCEPT !.pc = "returned", !.matches = matches,
                                  !.threshold = fed.dynamicThreshold,
                                  !.window = fed.window,
                                  !.result = found]]
    /\ UNCHANGED <<bucket, vindex, vectorizeBound, ctxVars, ghostVars, stats,
                   asked, uptimeVars>>

\* the caller takes the result
FindReturn(c) ==
    /\ call[c].pc = "returned"
    /\ call' = [call EXCEPT ![c] = NoCall]
    /\ UNCHANGED <<bucket, vindex, vectorizeBound, ctxVars, ghostVars, stats,
                   tokenStats, observed, asked, uptimeVars>>

\* an isolate that has just started, no request in the worker
InitSemantic ==
    /\ bucket = EmptyBucket
    /\ vindex = [k \in Keys |-> Null]
    /\ vectorizeBound = FALSE
    /\ admit = [c \in Contexts |-> {}]
    /\ InitContexts
    /\ InitMonitor
    /\ clock = 0
    /\ stats = Null

\* one call after the other
NextSemantic ==
    \/ \E modelName \in ModelNamesAsked, userPrefix \in UserPrefixes, token \in Tokens :
           FindSimilarText("c1", modelName, userPrefix, token)
    \/ VectorizeQuery("c1")
    \/ FindReturn("c1")

SpecSemantic == InitSemantic /\ [][NextSemantic]_vars

\* the credentials of the concurrent calls: one caller identity
RaceTokens == {TokenA1, TokenA2}

\* concurrent calls of one caller
NextSemanticRace ==
    \E c \in Contexts :
        \/ \E token \in RaceTokens : FindSimilarText(c, "unknown", "anon", token)
        \/ VectorizeQuery(c)
        \/ FindReturn(c)

SpecSemanticRace == InitSemantic /\ [][NextSemanticRace]_vars

(***************************************************************************)
(* The offline threshold analyzer: calculatePercentile over the scores of   *)
(* one token read from the log                                              *)
(***************************************************************************)
\* the largest number of scores of one token in the log
MaxLogged == 10

\* similarity scores of the log lines
LogScores == ScoreValues \ {0}

\* calculatePercentile(scores, percentile): the element at position
\* ceil(percentile / 100 * n) - 1 of the scores sorted ascending
calculatePercentile(scores, percentile) ==
    IF Len(scores) = 0 THEN 0
    ELSE LET sorted == SortAscending(scores)
             index == ((percentile * Len(sorted) + 99) \div 100) - 1
         IN  sorted[(IF index < 0 THEN 0 ELSE index) + 1]

\* the scores of one token, as the estimator holds them while the log is
\* written
InitAnalyzer ==
    /\ bucket = EmptyBucket
    /\ vindex = [k \in Keys |-> Null]
    /\ vectorizeBound = FALSE
    /\ admit = [c \in Contexts |-> {}]
    /\ InitContexts
    /\ InitMonitor
    /\ clock = 0
    /\ stats = RollingStats(MaxLogged, DefaultTargetHitRate)

\* tokenData[entry.token].scores.push(entry.similarity), the score the
\* estimator added when it wrote the line
LogScore(score) ==
    /\ Len(stats.scores) < MaxLogged
    /\ AddScore(score)

NextAnalyzer == \E score \in LogScores : LogScore(score)

SpecAnalyzer == InitAnalyzer /\ [][NextAnalyzer]_vars

(***************************************************************************)
(* UptimeMonitor: the history of uptime checks of every model              *)
(***************************************************************************)
\* this.historyLength = 288, here a history of a few entries
historyLength == 3

\* the largest number of recordCheck calls in one behaviour
MaxChecks == 5

\* SliceLast that keeps the oldest entries: history.slice(0, n)
SliceFirst(history, n) ==
    IF Len(history) <= n THEN history ELSE SubSeq(history, 1, n)

\* history.slice(-n)
SliceLast(history, n) ==
    IF Len(history) <= n THEN history
    ELSE SubSeq(history, Len(history) - n + 1, Len(history))

\* recordCheck(modelName, isUp, type): the record of the model after the
\* call, data being its record before (Null where it has none)
recordCheck(data, isUp, type, timestamp) ==
    LET uptimeEntry == [timestamp |-> timestamp,
                        status |-> IF isUp THEN "up" ELSE "down"]
        pushed == Append(IF data = Null THEN <<>> ELSE data.history, uptimeEntry)
    IN  [history |-> IF Len(pushed) > historyLength
                     THEN SliceLast(pushed, historyLength)
                     ELSE pushed,
         lastCheck |-> timestamp,
         currentStatus |-> IF isUp THEN "online" ELSE "offline",
         type |-> type]

\* validateModelName(modelName) returns the name
ValidModelName(modelName) == modelName \notin DangerousNames

\* uptimeMonitor.recordCheck(modelName, isUp, type)
RecordCheck(modelName, isUp, type) ==
    /\ ValidModelName(modelName)
    /\ Len(checks["openai"]) + Len(checks["flux"]) < MaxChecks
    /\ \E timestamp \in {clock, clock + 1} :
         /\ clock' = timestamp
         /\ uptimeData' = [uptimeData EXCEPT ![modelName] =
                               recordCheck(@, isUp, type, timestamp)]
         /\ checks' = [checks EXCEPT ![modelName] =
                           Append(@, [timestamp |-> timestamp,
                                      status |-> IF isUp THEN "up" ELSE "down"])]
    /\ UNCHANGED <<bucket, vindex, vectorizeBound, ctxVars, ghostVars, stats,
                   semanticVars>>

\* uptime_data.json as saveData of an earlier run wrote it: a full history
SavedHistory == [i \in 1..historyLength |-> [timestamp |-> 0, status |-> "up"]]

\* the monitor after initialize(): no file, or the data of the file
InitUptime ==
    /\ bucket = EmptyBucket
    /\ vindex = [k \in Keys |-> Null]
    /\ vectorizeBound = FALSE
    /\ admit = [c \in Contexts |-> {}]
    /\ InitContexts
    /\ stats = Null
    /\ clock = 0
    /\ \/ InitMonitor
       \/ /\ uptimeData = [name \in ModelNames |->
                IF name = "openai"
                THEN [history |-> SavedHistory, lastCheck |-> 0,
                      currentStatus |-> "online", type |-> "text"]
                ELSE Null]
          /\ checks = [name \in ModelNames |->
                IF name = "openai" THEN SavedHistory ELSE <<>>]

NextUptime ==
    \E modelName \in ModelNames, isUp \in BOOLEAN, type \in ModelTypes :
        RecordCheck(modelName, isUp, type)

SpecUptime == InitUptime /\ [][NextUptime]_vars

(***************************************************************************)
(* Properties                                                              *)
(***************************************************************************)
Done(c) == pc[c] = "done"

NoCacheCalls(c) ==
    io[c].gets = 0 /\ io[c].puts = 0 /\ io[c].queries = 0 /\ io[c].upserts = 0

\* the request is one the bypass rule names
BypassRequested(q) ==
    \/ q.nocache
    \/ q.pathname \in { <<"models">>, <<"feed">>, <<"vectorcache", "models">>,
                        <<"vectorcache", "feed">> }

\* the requests the worker answers itself
OwnAnswer(q) ==
    \/ q.pathname = <<"vectorcache">>
    \/ /\ q.pathname = <<"vectorcache", "v1", "chat", "completions">>
       /\ \/ q.method = "OPTIONS"
          \/ q.method = "POST" /\ q.body = BadBody

\* the handler went through the lookup and called the origin
Missed(c) ==
    /\ pc[c] # "idle"
    /\ ~OwnAnswer(request[c]) /\ ~BypassRequested(request[c])
    /\ request[c].body # BadBody
    /\ request[c].pathname # <<"vectorcache", "v1", "chat", "completions">>
    /\ io[c].origin > 0

C2_ResponseBeforePopulation ==
    [][\A c \in Contexts :
          (pc[c] # "done" /\ pc'[c] = "done") =>
              (io'[c].puts = 0 /\ io'[c].upserts = 0)]_vars

\* C3: a failed put or upsert is not retried and the client gets the
\* origin's status and body all the same.
C3_PopulationFailureInvisible ==
    \A c \in Contexts :
        /\ io[c].puts <= 1 /\ io[c].upserts <= 1
        /\ (Done(c) /\ (population[c] = "failed" \/ storeResult[c] = "failed")) =>
              /\ result[c].status = response[c].status
              /\ result[c].body = response[c].body

C3_Witness ==
    \E c \in Contexts :
        /\ Done(c) /\ population[c] = "failed" /\ storeResult[c] = "failed"
        /\ result[c].status = 200 /\ result[c].body = response[c].body

\* C4 (as claimed): a request with no-cache or a non-cacheable path goes to
\* the origin without touching either store.
C4_BypassGoesToOrigin ==
    \A c \in Contexts :
        (Done(c) /\ BypassRequested(request[c])) =>
            /\ NoCacheCalls(c)
            /\ io[c].origin = 1
            /\ result[c] = response[c]

\* C4 (amended): a request with no-cache or a non-cacheable path touches
\* neither store; it gets the origin's response after one origin call unless
\* it is one the worker answers itself (the /vectorcache document, the
\* preflight answer and the 500 for an unreadable chat completions body).
C4_BypassTouchesNoStore ==
    \A c \in Contexts :
        (pc[c] # "idle" /\ BypassRequested(request[c])) =>
            /\ NoCacheCalls(c)
            /\ Done(c) =>
                  IF OwnAnswer(request[c])
                  THEN io[c].origin = 0
                  ELSE /\ io[c].origin = 1
                       /\ \/ result[c] = response[c]
                          \/ /\ request[c].pathname = <<"vectorcache", "v1", "chat", "completions">>
                             /\ response[c] = Null /\ result[c].status = 500

C4_Witness ==
    \E c \in Contexts :
        /\ Done(c) /\ request[c].nocache /\ request[c].pathname = <<"completion">>
        /\ io[c].origin = 1 /\ result[c] = response[c] /\ NoCacheCalls(c)
        /\ \E k \in Keys : bucket[k] # Null

\* C5: a POST whose body cannot be parsed is proxied to the origin without
\* any cache call, on the plain path and under the /vectorcache prefix.
C5_UnparsableBodyIsProxied ==
    \A c \in Contexts :
        (Done(c) /\ request[c].method = "POST" /\ request[c].body = BadBody) =>
            /\ NoCacheCalls(c)
            /\ io[c].origin = 1
            /\ result[c] = response[c]

\* a content type the worker caches, read off the header value
Textual(contentType) ==
    /\ Len(contentType) >= 2
    /\ \/ contentType[1] = "text/"
       \/ /\ contentType[1] = "application/"
          /\ contentType[2] \in {"json", "javascript", "xml", "ld+json"}

\* C6: after the origin call of a miss, the put and the upsert are started
\* only for a 200 response with a textual or event-stream content type; any
\* other response is returned and neither store is written.
C6_OnlyCacheableIsPopulated ==
    \A c \in Contexts :
        (Missed(c) /\ ~(response[c].status = 200 /\ Textual(response[c].contentType))) =>
            /\ population[c] = "none" /\ storeResult[c] = "none"
            /\ io[c].puts = 0 /\ io[c].upserts = 0
            /\ Done(c)
            /\ result[c].body = response[c].body

C6_Witness ==
    \E c \in Contexts :
        /\ Missed(c) /\ Done(c) /\ isVectorCacheRequest(c) /\ vectorizeBound
        /\ response[c].status = 200 /\ response[c].contentType = CtPng
        /\ io[c].puts = 0 /\ io[c].upserts = 0
        /\ bucket[cacheKey(c)] = Null /\ vindex[cacheKey(c)] = Null

\* C7: on a miss the client gets the origin's status, status text, body and
\* headers, whatever the status; only the cache-status header is added.
C7_MissResponseIsOrigins ==
    \A c \in Contexts :
        (Done(c) /\ Missed(c)) =>
            /\ result[c].status = response[c].status
            /\ result[c].statusText = response[c].statusText
            /\ result[c].body = response[c].body
            /\ result[c].contentType = response[c].contentType
            /\ result[c].xcache = "MISS"

C7_Witness ==
    \E c \in Contexts :
        /\ Done(c) /\ Missed(c)
        /\ response[c].status = 500 /\ result[c].status = 500
        /\ result[c].statusText = "Internal Server Error"
        /\ result[c].body = response[c].body /\ result[c].xcache = "MISS"

\* C8: a request under /vectorcache whose key has an entry with metadata in
\* the exact-match store is answered from that entry with status HIT and
\* without a vector query, on every path under the prefix (a failing get
\* and the worker's own status document aside).
C8_PrefixedRequestGetsExactHit ==
    \A c \in Contexts :
        (/\ Done(c)
         /\ IsVectorCacheRequest(request[c].pathname)
         /\ request[c].pathname # <<"vectorcache">>
         /\ request[c].method # "OPTIONS"
         /\ request[c].body # BadBody
         /\ ~BypassRequested(request[c])
         /\ ~lookupFailed[c]
         /\ heldAtArrival[c] # Null
         /\ heldAtArrival[c].httpMetadata # Null) =>
            /\ result[c].xcache = "HIT"
            /\ result[c].body = heldAtArrival[c].body
            /\ io[c].queries = 0
            /\ io[c].origin = 0

\* C9 (as claimed): every request ends as a cache answer without an origin
\* call or as the origin's answer after exactly one origin call.
C9_CacheOrOrigin ==
    \A c \in Contexts :
        Done(c) =>
            \/ /\ io[c].origin = 0
               /\ io[c].gets > 0
               /\ result[c].body \in { bucket[k].body : k \in { x \in Keys : bucket[x] # Null } }
            \/ /\ io[c].origin = 1
               /\ result[c].body = response[c].body
               /\ result[c].status = response[c].status

\* C9 (amended): every request ends in exactly one of three ways: a cache
\* answer without an origin call; an answer after exactly one origin call
\* (the origin's response, or the worker's 500 when the forwarding fetch of
\* the chat completions handler rejects); or an answer of the worker itself
\* without cache or origin call (the /vectorcache document, the preflight
\* answer, the 500 for an unreadable chat completions body).
C9_CacheOriginOrOwn ==
    \A c \in Contexts :
        /\ io[c].origin <= 1
        /\ Done(c) =>
            IF OwnAnswer(request[c])
            THEN /\ io[c].origin = 0 /\ NoCacheCalls(c)
                 /\ result[c].status \in {200, 204, 500}
                 /\ result[c].xcache = "none"
            ELSE \/ /\ io[c].origin = 0
                    /\ io[c].gets > 0
                    /\ result[c].status = 200
                    /\ result[c].body \in
                          { bucket[k].body : k \in { x \in Keys : bucket[x] # Null } }
                 \/ /\ io[c].origin = 1
                    /\ response[c] # Null
                    /\ result[c].body = response[c].body
                    /\ result[c].status = response[c].status
                 \/ /\ io[c].origin = 1
                    /\ response[c] = Null
                    /\ request[c].pathname = <<"vectorcache", "v1", "chat", "completions">>
                    /\ result[c].status = 500

C9_Witness ==
    \E c \in Contexts :
        /\ Done(c) /\ OwnAnswer(request[c]) /\ request[c].method = "OPTIONS"
        /\ result[c].status = 204 /\ io[c].origin = 0
        /\ \E k \in Keys : bucket[k] # Null /\ vindex[k] # Null

\* C10: a response served through the cache carries the cache status that
\* says how: MISS after an origin call, VECTOR-HIT (the semantic hit) when
\* the body came from the key of a similarity match, HIT when it came from
\* the entry under the request's own key.
C10_CacheStatusMatchesSource ==
    \A c \in Contexts :
        (Done(c) /\ io[c].gets > 0) =>
            result[c].xcache =
                IF io[c].origin > 0 THEN "MISS"
                ELSE IF bestMatch[c] # Null THEN "VECTOR-HIT"
                ELSE "HIT"

\* the request went through the lookup on the semantic path
SemanticPathLookup(c) ==
    /\ pc[c] # "idle"
    /\ Route(request[c]) = "lookup"
    /\ isVectorCacheRequest(c)

\* C11: on every semantic hit the response reports the score of the selected
\* match and the key that was served, and its body is the body stored in the
\* exact-match store under the reported key.
C11_SemanticHitReportsServedEntry ==
    [][\A c \in Contexts :
          (pc[c] # "done" /\ pc'[c] = "done"
              /\ result'[c].xcache = "VECTOR-HIT") =>
              /\ result'[c].similarity = bestMatch[c].score
              /\ result'[c].originalKey = bestMatch[c].cacheKey
              /\ bucket[result'[c].originalKey] # Null
              /\ result'[c].body = bucket[result'[c].originalKey].body]_vars

C11_Witness ==
    \E c \in Contexts :
        /\ Done(c) /\ result[c].xcache = "VECTOR-HIT"
        /\ result[c].originalKey = bestMatch[c].cacheKey
        /\ result[c].originalKey # cacheKey(c)
        /\ result[c].body = bucket[result[c].originalKey].body

\* the vector index is not bound, or the query of this request failed
IndexUnavailable(c) == ~vectorizeBound \/ io[c].queryErrors > 0

\* C12: when the vector index is absent or its query fails, a semantic-path
\* request that misses the exact store goes to the origin once, returns the
\* response a request with semantic mode disabled returns (the origin's
\* status and body), and a cacheable response is still put in the exact
\* store.
C12_IndexUnavailableIsExactOnly ==
    \A c \in Contexts :
        (Done(c) /\ SemanticPathLookup(c) /\ IndexUnavailable(c)
            /\ heldAtArrival[c] = Null) =>
            /\ io[c].origin = 1
            /\ bestMatch[c] = Null
            /\ result[c] = MissResponse(response[c])
            /\ ShouldCache(response[c]) => population[c] # "none"

C12_Witness ==
    \E c \in Contexts :
        /\ Done(c) /\ SemanticPathLookup(c) /\ heldAtArrival[c] = Null
        /\ vectorizeBound /\ io[c].queryErrors > 0
        /\ result[c] = MissResponse(response[c])
        /\ population[c] = "stored"

\* C13: an error while the embedding is generated aborts only the semantic
\* path: the request goes to the origin, returns the origin's response, and
\* a cacheable response is still put in the exact store.
C13_EmbeddingErrorAbortsSemanticPathOnly ==
    \A c \in Contexts :
        (Done(c) /\ io[c].embeddingErrors > 0) =>
            /\ io[c].origin = 1
            /\ result[c] = MissResponse(response[c])
            /\ ShouldCache(response[c]) => population[c] # "none"

C13_Witness ==
    \E c \in Contexts :
        /\ Done(c) /\ io[c].embeddingErrors > 0 /\ io[c].queries = 0
        /\ result[c] = MissResponse(response[c])
        /\ population[c] = "stored"

\* C14 (as claimed): a failing exact-store get during the lookup is a miss:
\* the request goes to the origin and the client receives the origin's
\* response.
C14_GetFailureGoesToOrigin ==
    \A c \in Contexts :
        (Done(c) /\ io[c].getErrors > 0) =>
            /\ io[c].origin = 1
            /\ result[c] = MissResponse(response[c])

\* C14 (amended): a failing exact-store get during the lookup is a miss and
\* never an error: the client receives the origin's response after one
\* origin call, or, when the get for the own key failed on the semantic
\* path, the semantic hit the vector lookup found afterwards.
C14_GetFailureIsAMiss ==
    \A c \in Contexts :
        (Done(c) /\ io[c].getErrors > 0) =>
            \/ /\ io[c].origin = 1
               /\ result[c] = MissResponse(response[c])
            \/ /\ io[c].origin = 0
               /\ lookupFailed[c] /\ UsesVectorCache(c)
               /\ result[c].xcache = "VECTOR-HIT"
               /\ result[c].body = bucket[bestMatch[c].cacheKey].body

C14_Witness ==
    \E c \in Contexts :
        /\ Done(c) /\ io[c].getErrors > 0 /\ bestMatch[c] # Null
        /\ ~lookupFailed[c]
        /\ io[c].origin = 1 /\ result[c] = MissResponse(response[c])

\* C17: the cache key is determined by method, path, query and body: a
\* request never uses a key under which a request with another method or
\* another body populated the store.
C17_KeySeparatesMethodAndBody ==
    \A c \in Contexts :
        (pc[c] # "idle" /\ Route(request[c]) = "lookup") =>
            \A p \in populated :
                CacheKeyOf(p[1]) = cacheKey(c) =>
                    /\ p[1].method = request[c].method
                    /\ p[1].body = request[c].body

\* C15: every request reaches a terminal response, even when the vector
\* index never answers the query.
C15_EveryRequestIsAnswered ==
    \A c \in Contexts : (pc[c] # "idle") ~> Done(c)

\* C16: there is no single flight: every request that is not answered from
\* the cache makes its own origin call, whatever other requests for its key
\* are in flight.
C16_EveryMissCallsTheOrigin ==
    \A c \in Contexts :
        (Done(c) /\ result[c].xcache \notin {"HIT", "VECTOR-HIT"}) =>
            /\ io[c].origin = 1
            /\ result[c] = MissResponse(response[c])

\* two requests for one key have both called the origin while the exact
\* store has no entry for the key
C16_Witness ==
    \E c, d \in Contexts :
        /\ c # d
        /\ pc[c] # "idle" /\ pc[d] # "idle"
        /\ cacheKey(c) = cacheKey(d)
        /\ io[c].origin = 1 /\ io[d].origin = 1
        /\ heldAtArrival[c] = Null /\ heldAtArrival[d] = Null
        /\ bucket[cacheKey(c)] = Null

\* the scores of the window that are strictly greater than x, at least x
ScoresAbove(x) == { i \in DOMAIN stats.scores : stats.scores[i] > x }
ScoresAtOrAbove(x) == { i \in DOMAIN stats.scores : stats.scores[i] >= x }

C20_ShareAtOrAboveThreshold ==
    (stats # Null /\ Len(stats.scores) >= MinSamples
        /\ stats.targetHitRate = 20
        /\ Cardinality(Range(stats.scores)) = Len(stats.scores)) =>
        Cardinality(ScoresAtOrAbove(RollingStats_getDynamicThreshold(stats)))
            = Len(stats.scores) - ((80 * Len(stats.scores)) \div 100)

\* a full window of distinct scores in which the arrival order is not the
\* sorted order
C20_Witness ==
    /\ stats # Null /\ Len(stats.scores) = stats.windowSize
    /\ stats.targetHitRate = 20
    /\ Cardinality(Range(stats.scores)) = Len(stats.scores)
    /\ stats.scores # SortAscending(stats.scores)
    /\ Cardinality(ScoresAtOrAbove(RollingStats_getDynamicThreshold(stats))) = 2

\* C21: a higher score means more similar in every acceptance test: when a
\* match with score s1 is accepted, a match with any score s2 > s1 is
\* accepted too.  Here for querySimilarVectors: the match the handler goes
\* on with was accepted, so every higher score the index reports passes.
C21_HigherScoreIsAccepted ==
    \A c \in Contexts :
        bestMatch[c] # Null =>
            \A s2 \in Scores :
                bestMatch[c].score < s2 => PassesThreshold([score |-> s2])

\* C22: the match served is chosen among exactly the qualifying matches:
\* whatever the index answers, every match that passes the threshold (and
\* no other) is a possible selection of the handler.
C22_EveryQualifyingMatchMayBeServed ==
    \A c \in Contexts :
        pc[c] = "vectorQuery" =>
            \A matches \in IndexAnswers :
                LET similarVectors == querySimilarVectors(matches) IN
                Len(similarVectors) > 0 =>
                    SelectMatch(similarVectors) = Range(similarVectors)

\* C23: after a request to the regular endpoint was answered from the origin
\* and cached, another (not identical) request to the vector-cache endpoint,
\* with the index bound and no failure, is a VECTOR-HIT without an origin
\* call.
C23_VectorHitAfterRegularMiss ==
    \A c \in Contexts :
        ( /\ Done(c) /\ SemanticPathLookup(c) /\ vectorizeBound
          /\ heldAtArrival[c] = Null
          /\ io[c].getErrors = 0 /\ io[c].queryErrors = 0
          /\ io[c].embeddingErrors = 0
          /\ \E p \in populated :
               /\ ~IsVectorCacheRequest(p[1].pathname)
               /\ CacheKeyOf(p[1]) # cacheKey(c)
               /\ bucket[CacheKeyOf(p[1])] # Null ) =>
            /\ result[c].xcache = "VECTOR-HIT"
            /\ io[c].origin = 0

\* C24: after any sequence of recordCheck calls, the history of every model
\* holds at most historyLength entries, and these are the most recent checks
\* of the model in the order recorded.
C24_HistoryIsTheRecentChecks ==
    \A name \in ModelNames :
        IF uptimeData[name] = Null THEN checks[name] = <<>>
        ELSE LET history == uptimeData[name].history
                 n == Len(checks[name])
                 k == Len(history)
             IN  /\ k <= historyLength
                 /\ k = IF n < historyLength THEN n ELSE historyLength
                 /\ \A i \in 1..k : history[i] = checks[name][n - k + i]

\* a model with more checks recorded than its history holds, up and down
C24_Witness ==
    /\ uptimeData["flux"] # Null
    /\ Len(checks["flux"]) > historyLength
    /\ Len(uptimeData["flux"].history) = historyLength
    /\ uptimeData["flux"].history[1] # checks["flux"][1]

\* C25: in findSimilarText every score of the answer is in the window of the
\* caller when the threshold is computed, and a match is classified
\* above-threshold exactly when its score is >= the threshold computed after
\* the append; the match returned as a hit is such a match.
C25_ClassifiedByThresholdAfterAppend ==
    \A c \in Contexts :
        (call[c].pc = "returned" /\ call[c].matches # <<>>) =>
            LET q == call[c]
                scores == MatchScores(q.matches)
                window == tokenStats[TokenHash(q.token)].scores
                qualifying == { i \in DOMAIN q.matches :
                                  q.matches[i].score >= q.threshold }
            IN  /\ Len(window) >= Len(scores)
                /\ SubSeq(window, Len(window) - Len(scores) + 1, Len(window)) = scores
                /\ q.threshold = getDynamicThreshold(tokenStats, q.token)
                /\ q.result.aboveThreshold <=> qualifying # {}
                /\ q.result.aboveThreshold =>
                       \E i \in qualifying :
                           /\ q.result.cacheKey = q.matches[i].id
                           /\ q.result.similarity = q.matches[i].score
                /\ ~q.result.aboveThreshold => q.result.cacheKey = NoKey

\* a caller past the cold start whose match of score 0.85 is a hit
C25_Witness ==
    /\ call["c1"].pc = "returned" /\ call["c1"].token = TokenA1
    /\ call["c1"].result # Null
    /\ tokenStats[TokenHash(TokenA1)] # Null
    /\ Len(tokenStats[TokenHash(TokenA1)].scores) >= MinSamples
    /\ call["c1"].threshold = 85
    /\ call["c1"].result.aboveThreshold
    /\ call["c1"].result.similarity = 85

\* C26: for every window holding at least the minimum sample count, the
\* threshold is the score at position floor((100 - targetHitRate) / 100 * n)
\* (counted from 0) of the window sorted ascending, a score of the window.
C26_ThresholdIsThePercentileScore ==
    (stats # Null /\ Len(stats.scores) >= MinSamples) =>
        LET sorted == SortAscending(stats.scores)
            index == ((100 - stats.targetHitRate) * Len(sorted)) \div 100
        IN  /\ index + 1 \in DOMAIN sorted
            /\ RollingStats_getDynamicThreshold(stats) = sorted[index + 1]
            /\ RollingStats_getDynamicThreshold(stats) \in Range(stats.scores)

\* C27: after k addScore calls on the RollingStats of a caller, the window
\* holds exactly the last min(k, windowSize) scores in arrival order: it
\* never exceeds windowSize and the oldest score is the one evicted.
C27_WindowIsTheLastScores ==
    \A h \in TokenHashes :
        IF tokenStats[h] = Null THEN observed[h] = <<>>
        ELSE LET window == tokenStats[h].scores
                 k == Len(observed[h])
                 n == Len(window)
             IN  /\ n <= tokenStats[h].windowSize
                 /\ n = IF k < tokenStats[h].windowSize THEN k
                        ELSE tokenStats[h].windowSize
                 /\ \A i \in 1..n : window[i] = observed[h][k - n + i]

\* a caller whose window overflowed: the first score added is gone
C27_Witness ==
    \E h \in TokenHashes :
        /\ tokenStats[h] # Null
        /\ Len(observed[h]) > tokenStats[h].windowSize
        /\ Len(tokenStats[h].scores) = tokenStats[h].windowSize
        /\ tokenStats[h].scores[1] # observed[h][1]

\* C28: under any interleaving of concurrent findSimilarText calls, the
\* window of every caller holds the last scores observed for it, each once
\* and in the order added, never more than windowSize, and the threshold
\* that classified a query was computed from a window ending with all the
\* scores of that query.
C28_SharedWindowStaysConsistent ==
    /\ \A h \in TokenHashes :
        tokenStats[h] # Null =>
            LET window == tokenStats[h].scores
                k == Len(observed[h])
                n == Len(window)
            IN  /\ n <= tokenStats[h].windowSize
                /\ n = IF k < tokenStats[h].windowSize THEN k
                       ELSE tokenStats[h].windowSize
                /\ window = SubSeq(observed[h], k - n + 1, k)
    /\ \A c \in Contexts :
        (call[c].pc = "returned" /\ call[c].matches # <<>>) =>
            LET q == call[c]
                scores == MatchScores(q.matches)
                n == Len(q.window)
            IN  /\ n >= Len(scores)
                /\ SubSeq(q.window, n - Len(scores) + 1, n) = scores
                /\ q.token # NoToken =>
                       q.threshold = RollingStats_getDynamicThreshold(
                           [RollingStats(TokenWindowSize, DefaultTargetHitRate)
                               EXCEPT !.scores = q.window])

\* two calls of one caller identity in flight, the second answered between
\* the call and the answer of the first: the window of the first holds the
\* scores of both
C28_Witness ==
    /\ call["c1"].pc = "returned" /\ call["c2"].pc = "returned"
    /\ call["c1"].token = TokenA1 /\ call["c2"].token = TokenA2
    /\ call["c1"].matches # <<>> /\ call["c2"].matches # <<>>
    /\ asked = 2
    /\ Len(call["c1"].window) = Len(call["c1"].matches) + Len(call["c2"].matches)
    /\ Len(call["c2"].window) = Len(call["c2"].matches)

\* the identity of a caller: the first 8 characters of its credential
Identity(token) ==
    IF Len(token) <= 8 THEN token ELSE SubSeq(token, 1, 8)

\* C29: a query of one caller changes only the window of that caller's
\* identity: the window and the threshold of every caller with a different
\* identity are the same before and after it, and no other step changes a
\* window.
C29_OnlyTheCallersWindowChanges ==
    [][ /\ \A c \in Contexts :
            (call[c].pc = "query" /\ call'[c].pc = "returned") =>
                \A other \in Tokens :
                    Identity(other) # Identity(call[c].token) =>
                        /\ tokenStats'[TokenHash(other)] = tokenStats[TokenHash(other)]
                        /\ getDynamicThreshold(tokenStats', other)
                               = getDynamicThreshold(tokenStats, other)
        /\ (\A c \in Contexts : ~(call[c].pc = "query" /\ call'[c].pc = "returned"))
               => tokenStats' = tokenStats ]_vars

\* a query of a caller with a credential was answered while the window of
\* the callers without credential holds other scores
C29_Witness ==
    /\ call["c1"].pc = "returned" /\ call["c1"].token = TokenA1
    /\ call["c1"].matches # <<>>
    /\ tokenStats[TokenHash(NoToken)] # Null
    /\ tokenStats[TokenHash(TokenA2)] # Null
    /\ Len(tokenStats[TokenHash(NoToken)].scores) > 0
    /\ tokenStats[TokenHash(NoToken)].scores # tokenStats[TokenHash(TokenA2)].scores

\* C30: the id under which a vector is upserted is the cache key under
\* which the response of the same miss is put in the exact-match store, and
\* the key a match is resolved with in the store is the id of the matched
\* vector.
C30_VectorIdIsTheCacheKey ==
    /\ \A id \in StoredIds : vindex[id].cacheKey = id
    /\ \A c \in Contexts :
        (SemanticPathLookup(c) /\ storeResult[c] = "ok"
            /\ population[c] = "stored") =>
            /\ vindex[cacheKey(c)] # Null
            /\ lastPut[cacheKey(c)] # Null
            /\ <<request[c], response[c].body>> \in populated
    /\ \A c \in Contexts :
        bestMatch[c] # Null =>
            /\ bestMatch[c].cacheKey \in StoredIds
            /\ vindex[bestMatch[c].cacheKey].cacheKey = bestMatch[c].cacheKey

\* a semantic hit served from the entry another semantic-path miss stored
C30_Witness ==
    \E c \in Contexts :
        /\ Done(c) /\ SemanticPathLookup(c)
        /\ result[c].xcache = "VECTOR-HIT"
        /\ bestMatch[c] # Null
        /\ bestMatch[c].cacheKey # cacheKey(c)
        /\ lastPut[bestMatch[c].cacheKey] # Null
        /\ result[c].body = lastPut[bestMatch[c].cacheKey].body

\* the response was served from the exact-match store
ExactHit(c) ==
    /\ Done(c) /\ Route(request[c]) = "lookup"
    /\ io[c].origin = 0
    /\ result[c].status = 200
    /\ result[c].xcache # "VECTOR-HIT"

\* C31: on an exact hit whose entry has no stored HTTP metadata, the first
\* byte of the body decides the content type: '{' or '[' gives JSON, any
\* other first byte gives text/event-stream for a streaming request and
\* plain text otherwise.
C31_FirstByteDecidesContentType ==
    \A c \in Contexts :
        ( /\ ExactHit(c)
          /\ bucket[cacheKey(c)] # Null
          /\ bucket[cacheKey(c)].httpMetadata = Null
          /\ result[c].body # <<>> ) =>
            result[c].contentType =
                IF result[c].body[1] \in {"{", "["} THEN CtJsonUtf8
                ELSE IF isStreamingRequest(c) THEN CtEventStreamUtf8
                ELSE CtPlainUtf8

\* C32: findSimilarText called for a model and a caller prefix returns a
\* cache key only of an entry stored with that model and that prefix.
C32_HitIsOfTheSameModelAndCaller ==
    \A c \in Contexts :
        ( /\ call[c].pc = "returned" /\ call[c].result # Null
          /\ call[c].result.cacheKey # NoKey ) =>
            /\ VectorMetadata[call[c].result.cacheKey].model = call[c].modelName
            /\ VectorMetadata[call[c].result.cacheKey].userPrefix = call[c].userPrefix

\* C33: in every reachable state every id stored in the vector index is a
\* key under which the exact-match store holds a response.
C33_EveryVectorResolves ==
    \A id \in StoredIds : bucket[id] # Null

\* C34: when the store has no entry under the key of the selected match, the
\* request is not answered as a semantic hit: the handler goes on to the
\* origin, and the answer is the origin's response with cache status MISS.
C34_DanglingMatchGoesToOrigin ==
    /\ [][ \A c \in Contexts :
             ( /\ pc[c] = "similarGet" /\ pc'[c] # "similarGet"
               /\ io'[c].getErrors = io[c].getErrors
               /\ bucket[bestMatch[c].cacheKey] = Null ) =>
                 /\ pc'[c] = "originFetch"
                 /\ result'[c] = result[c] ]_vars
    /\ [](\A c \in Contexts :
             ( /\ Done(c) /\ SemanticPathLookup(c)
               /\ bestMatch[c] # Null
               /\ io[c].getErrors = 0 /\ io[c].origin > 0 ) =>
                 /\ io[c].origin = 1
                 /\ result[c].xcache = "MISS"
                 /\ result[c].status = response[c].status
                 /\ result[c].body = response[c].body)

\* a request answered by the origin after its match had no entry
C34_Witness ==
    \E c \in Contexts :
        /\ Done(c) /\ SemanticPathLookup(c)
        /\ bestMatch[c] # Null
        /\ bucket[bestMatch[c].cacheKey] = Null
        /\ io[c].getErrors = 0 /\ io[c].gets = 2 /\ io[c].origin = 1
        /\ result[c].xcache = "MISS"

\* the response was served by the content-sniffing branch of the exact hit
SniffedHit(c) ==
    /\ Done(c) /\ Route(request[c]) = "lookup"
    /\ io[c].origin = 0
    /\ sniffedType[c] # <<>>
    /\ result[c].status = 200 /\ result[c].xcache = "none"

\* C35: on an exact hit served through the content-sniffing fallback, the
\* content type and the body of the response come from the same stored
\* write: the content type is the one the first byte of the served body
\* gives.
C35_SniffedTypeMatchesServedBody ==
    \A c \in Contexts :
        (SniffedHit(c) /\ result[c].body # <<>>) =>
            result[c].contentType = SniffType(result[c].body)

\* C36: for a caller without a credential the threshold findSimilarText uses
\* is the default 0.9 on every query, however many scores the window "anon"
\* holds: a match is a hit exactly when its score is >= 0.9.
C36_NoCredentialUsesTheDefault ==
    \A c \in Contexts :
        ( /\ call[c].pc = "returned" /\ call[c].result # Null
          /\ call[c].token = NoToken ) =>
            /\ call[c].threshold = DefaultThreshold
            /\ call[c].result.aboveThreshold <=>
                   \E i \in DOMAIN call[c].matches :
                       call[c].matches[i].score >= DefaultThreshold

\* the window "anon" is past the cold start and its percentile is 0.85, and
\* a match of 0.85 of a caller without a credential is not a hit
C36_Witness ==
    /\ call["c1"].pc = "returned" /\ call["c1"].result # Null
    /\ call["c1"].token = NoToken
    /\ tokenStats[TokenHash(NoToken)] # Null
    /\ Len(tokenStats[TokenHash(NoToken)].scores) >= MinSamples
    /\ RollingStats_getDynamicThreshold(tokenStats[TokenHash(NoToken)]) = 85
    /\ call["c1"].matches # <<>>
    /\ ~call["c1"].result.aboveThreshold
    /\ call["c1"].result.similarity = 85

\* C37: every non-null result of findSimilarText is consistent:
\* aboveThreshold is true exactly when cacheKey is not null, and then
\* cacheKey is the id of one of the matches the index returned and the
\* similarity is the score of that match, which is >= the threshold used.
C37_ResultIsConsistent ==
    \A c \in Contexts :
        (call[c].pc = "returned" /\ call[c].result # Null) =>
            LET q == call[c] IN
            /\ q.result.aboveThreshold <=> q.result.cacheKey # NoKey
            /\ q.result.aboveThreshold =>
                   \E i \in DOMAIN q.matches :
                       /\ q.matches[i].id = q.result.cacheKey
                       /\ q.matches[i].score = q.result.similarity
                       /\ q.matches[i].score >= q.threshold

\* a hit on the second match of an answer whose third match is below the
\* threshold
C37_Witness ==
    /\ call["c1"].pc = "returned" /\ call["c1"].result # Null
    /\ Len(call["c1"].matches) = 3
    /\ call["c1"].matches[3].score < call["c1"].threshold
    /\ call["c1"].result.aboveThreshold
    /\ call["c1"].result.cacheKey = "v2"

\* C38: for every list of at least 7 scores, calculatePercentile(scores, 80)
\* of the offline analyzer is the threshold RollingStats.getDynamicThreshold
\* gives with target hit rate 20 over the same scores.
C38_AnalyzerAgreesWithEstimator ==
    (stats # Null /\ Len(stats.scores) >= MinSamples
        /\ stats.targetHitRate = DefaultTargetHitRate) =>
        calculatePercentile(stats.scores, 100 - stats.targetHitRate)
            = RollingStats_getDynamicThreshold(stats)

====
